---- MODULE Spec2Model ----
(***************************************************************************)
(* The document consumer of paperless (src/documents/consumer.py): one     *)
(* pass of Consumer.consume_new_files over the consumption directory and   *)
(* the per-file workflow of Consumer.try_consume_file, together with the   *)
(* world they act on: the files of the consumption directory, the Document *)
(* table, the encrypted artifacts under MEDIA_ROOT and the signals sent.   *)
(***************************************************************************)
EXTENDS Integers, Sequences, FiniteSets, TLC

(* ------------------------------ bounds -------------------------------- *)

\* Paths of the consumption directory are 1..NumPaths.
NumPaths == 2
\* File contents (byte strings) are 1..NumContents.
NumContents == 2
\* Writes and removals made by whoever fills the consumption directory.
MaxWrites == 2
\* Parser declarations collected by Consumer.__init__.
NumParsers == 2
\* Logging groups (uuid4 values) handed out.
MaxGroups == 2

Paths == 1..NumPaths
Contents == 1..NumContents
\* The consumer processes; the specification Spec runs the first one alone.
Consumers == {1, 2}
\* Weights a parser declaration may report.
Weights == {5, 10}

(* ------------------------- external collaborators --------------------- *)

\* hashlib.md5(bytes).hexdigest(): a digest is shorter than the bytes it
\* digests, so two contents may share one (1 and 3 do).
Md5(b) == b % 2

\* GnuPG.encrypted(bytes): the ciphertext of the bytes, never the bytes.
Encrypted(b) == b + NumContents

\* re.match(FileInfo.REGEXES["title"], file): the last path of the directory
\* has a name the pattern does not match.
TitleMatches(p) == p # NumPaths

(* ------------------------------ state --------------------------------- *)

VARIABLES
    fs,         \* consumption directory: path -> [bytes, mtime], bytes 0 = absent
    writes,     \* changes made to the directory from outside: its clock
    docs,       \* Document table: row pk is the index, each [checksum, title]
    media,      \* encrypted artifacts: set of [pk, kind, data]
    signals,    \* signals sent: sequence of [kind, subject, group]
    uuids,      \* number of uuid4 values drawn so far
    unlinked,   \* history: [path, bytes, pk] of every os.unlink of the pipeline
    con         \* per consumer: the Consumer object and its position;
                \* parse_failed is history: the paths whose attempt ended
                \* in the ParseError handler

vars == <<fs, writes, docs, media, signals, uuids, unlinked, con>>

Absent == [bytes |-> 0, mtime |-> 0]
Present(p) == fs[p].bytes # 0

\* A probe that declines (None), and the locals of try_consume_file before a call.
Declined == [parser |-> 0, weight |-> 0]

NoAttempt ==
    [doc |-> 0, bytes0 |-> 0, docs0 |-> 0, media0 |-> {}, sig0 |-> 0,
     matched |-> FALSE, dupchecked |-> FALSE, duplicate |-> FALSE,
     probed |-> FALSE, probes |-> <<>>, parser_class |-> 0,
     started |-> FALSE, parsed |-> FALSE, cleanups |-> 0,
     document |-> 0, exc |-> "none", at |-> "none", result |-> "none"]

\* Consumer.__init__ returned: an empty ignore list, no logging group, no
\* pass running, the consumption directory there, every parser declared.
NewConsumer ==
    [pc |-> "idle", consume |-> "exists", scratch |-> TRUE,
     parsers |-> NumParsers, ignore |-> <<>>, logging_group |-> 0,
     files |-> <<>>, idx |-> 0, tried |-> {}, unsettled |-> {},
     parse_failed |-> {}, att |-> NoAttempt]

\* pc values inside one call of try_consume_file, its outcome included.
AttemptPcs ==
    {"try", "dup", "parser", "start", "thumb", "date", "text",
     "store_create", "store_tags", "store_doc", "store_thumb",
     "except", "else", "cleanup_doc", "finished", "ret", "raised"}

\* Some consumer is inside try_consume_file.  A file that passed the settle
\* check is not written while it is being consumed, and a write to another
\* file commutes with the steps of the attempt: the environment acts
\* between attempts.
Consuming == \E c \in Consumers : con[c].pc \in AttemptPcs

Init ==
    /\ fs = [p \in Paths |-> Absent]
    /\ writes = 0
    /\ docs = <<>>
    /\ media = {}
    /\ signals = <<>>
    /\ uuids = 0
    /\ unlinked = {}
    /\ con = [c \in Consumers |-> NewConsumer]

(* ---------------------------- environment ----------------------------- *)

\* Somebody drops a file into the consumption directory, or writes to one
\* that is there: new bytes, and the time of the write as the modification
\* time (the clock ticks between two changes of the directory).
Write(p, b) ==
    /\ writes < MaxWrites
    /\ ~Consuming
    /\ fs' = [fs EXCEPT ![p] = [bytes |-> b, mtime |-> writes + 1]]
    /\ writes' = writes + 1
    /\ UNCHANGED <<docs, media, signals, uuids, unlinked, con>>

\* Somebody removes a file from the consumption directory.
Remove(p) ==
    /\ writes < MaxWrites
    /\ Present(p)
    /\ ~Consuming
    /\ fs' = [fs EXCEPT ![p] = Absent]
    /\ writes' = writes + 1
    /\ UNCHANGED <<docs, media, signals, uuids, unlinked, con>>

(* ------------------------- consume_new_files -------------------------- *)

\* The insertion of a sort that puts the newest file first.
RECURSIVE InsertNewestFirst(_, _)
InsertNewestFirst(x, s) ==
    IF s = <<>> THEN <<x>>
    ELSE IF Head(s).mtime > x.mtime
         THEN <<Head(s)>> \o InsertNewestFirst(x, Tail(s))
         ELSE <<x>> \o s

\* sorted(files, key=itemgetter(1)): stable, ascending by modification time.
RECURSIVE InsertByMtime(_, _)
InsertByMtime(x, s) ==
    IF s = <<>> THEN <<x>>
    ELSE IF Head(s).mtime < x.mtime
         THEN <<Head(s)>> \o InsertByMtime(x, Tail(s))
         ELSE <<x>> \o s

RECURSIVE SortedOldToNew(_)
SortedOldToNew(files) ==
    IF files = <<>> THEN <<>>
    ELSE InsertByMtime(Head(files), SortedOldToNew(Tail(files)))

\* The entries os.scandir may yield: the files present, in any order.
RECURSIVE Orders(_)
Orders(S) ==
    IF S = {} THEN {<<>>}
    ELSE UNION {{<<p>> \o o : o \in Orders(S \ {p})} : p \in S}

InIgnore(c, p) == \E i \in 1..Len(con[c].ignore) : con[c].ignore[i] = p

\* The scan without the test of line 85 against the ignore list.
ScanAll(c) ==
    /\ con[c].pc = "idle"
    /\ \E entries \in Orders({p \in Paths : Present(p)}) :
         LET files == [i \in 1..Len(entries) |->
                          [path |-> entries[i], mtime |-> fs[entries[i]].mtime]]
         IN con' = [con EXCEPT ![c] =
                [@ EXCEPT !.pc = IF files = <<>> THEN "idle" ELSE "sleep",
                          !.files = SortedOldToNew(files),
                          !.idx = 1, !.tried = {}, !.unsettled = {},
                          !.att = NoAttempt]]
    /\ UNCHANGED <<fs, writes, docs, media, signals, uuids, unlinked>>

\* Lines 83-93: scan the directory, keep the files not ignored with their
\* modification time, return if there are none, else sort old to new.
Scan(c) ==
    /\ con[c].pc = "idle"
    /\ \E entries \in Orders({p \in Paths : Present(p)}) :
         LET kept == SelectSeq(entries, LAMBDA p : ~InIgnore(c, p))
             files == [i \in 1..Len(kept) |->
                          [path |-> kept[i], mtime |-> fs[kept[i]].mtime]]
         IN con' = [con EXCEPT ![c] =
                [@ EXCEPT !.pc = IF files = <<>> THEN "idle" ELSE "sleep",
                          !.files = SortedOldToNew(files),
                          !.idx = 1, !.tried = {}, !.unsettled = {},
                          !.att = NoAttempt]]
    /\ UNCHANGED <<fs, writes, docs, media, signals, uuids, unlinked>>

\* Line 93: time.sleep(FILES_MIN_UNMODIFIED_DURATION) returns.
Sleep(c) ==
    /\ con[c].pc = "sleep"
    /\ con' = [con EXCEPT ![c].pc = "loop"]
    /\ UNCHANGED <<fs, writes, docs, media, signals, uuids, unlinked>>

\* Raise under a handler that catches every exception and returns False.
RaiseSwallowed(c, at) ==
    con' = [con EXCEPT ![c].pc = "ret", ![c].att.exc = "Error",
                       ![c].att.at = at, ![c].att.result = "False"]

\* An exception leaves try_consume_file or consume_new_files.
Raise(c, at) ==
    con' = [con EXCEPT ![c].pc = "raised", ![c].att.exc = "Error",
                       ![c].att.at = at]

\* Loop without the comparison of line 96: every listed file is handed on.
LoopIgnoresMtime(c) ==
    /\ con[c].pc = "loop"
    /\ LET k == con[c].idx IN
       IF k > Len(con[c].files)
       THEN con' = [con EXCEPT ![c].pc = "idle"]
       ELSE LET f == con[c].files[k] IN
            IF ~Present(f.path)
            THEN con' = [con EXCEPT ![c].pc = "raised", ![c].att.exc = "Error",
                                    ![c].att.at = "getmtime"]
            ELSE con' = [con EXCEPT ![c] =
                   [@ EXCEPT !.pc = "try",
                             !.tried = @ \cup {f.path},
                             !.att = [NoAttempt EXCEPT
                                 !.doc = f.path,
                                 !.bytes0 = fs[f.path].bytes,
                                 !.docs0 = Len(docs),
                                 !.media0 = media,
                                 !.sig0 = Len(signals)]]]
    /\ UNCHANGED <<fs, writes, docs, media, signals, uuids, unlinked>>

\* The loop ending one file early.
LoopSkipsLast(c) ==
    /\ con[c].pc = "loop"
    /\ LET k == con[c].idx IN
       IF k >= Len(con[c].files)
       THEN con' = [con EXCEPT ![c].pc = "idle"]
       ELSE LET f == con[c].files[k] IN
            IF ~Present(f.path)
            THEN Raise(c, "getmtime")
            ELSE IF f.mtime = fs[f.path].mtime
            THEN con' = [con EXCEPT ![c] =
                   [@ EXCEPT !.pc = "try",
                             !.tried = @ \cup {f.path},
                             !.att = [NoAttempt EXCEPT
                                 !.doc = f.path,
                                 !.bytes0 = fs[f.path].bytes,
                                 !.docs0 = Len(docs),
                                 !.media0 = media,
                                 !.sig0 = Len(signals)]]]
            ELSE con' = [con EXCEPT ![c].idx = k + 1,
                                    ![c].unsettled = @ \cup {f.path}]
    /\ UNCHANGED <<fs, writes, docs, media, signals, uuids, unlinked>>

\* Lines 95-98: the next file of the pass; its modification time is read
\* again (os.path.getmtime raises when the file is gone) and the file is
\* handed to try_consume_file when it has not changed.
Loop(c) ==
    /\ con[c].pc = "loop"
    /\ LET k == con[c].idx IN
       IF k > Len(con[c].files)
       THEN con' = [con EXCEPT ![c].pc = "idle"]
       ELSE LET f == con[c].files[k] IN
            IF ~Present(f.path)
            THEN Raise(c, "getmtime")
            ELSE IF f.mtime = fs[f.path].mtime
            THEN con' = [con EXCEPT ![c] =
                   [@ EXCEPT !.pc = "try",
                             !.tried = @ \cup {f.path},
                             !.att = [NoAttempt EXCEPT
                                 !.doc = f.path,
                                 !.bytes0 = fs[f.path].bytes,
                                 !.docs0 = Len(docs),
                                 !.media0 = media,
                                 !.sig0 = Len(signals)]]]
            ELSE con' = [con EXCEPT ![c].idx = k + 1,
                                    ![c].unsettled = @ \cup {f.path}]
    /\ UNCHANGED <<fs, writes, docs, media, signals, uuids, unlinked>>

(* -------------------------- try_consume_file -------------------------- *)

\* try_consume_file returns: the locals keep the outcome for the caller.
Return(c, result) ==
    con' = [con EXCEPT ![c].pc = "ret", ![c].att.result = result]

\* The filename gate without its return: every file goes on to the next gate.
TryFallsThrough(c) ==
    /\ con[c].pc = "try"
    /\ con' = [con EXCEPT ![c].pc = "dup",
                          ![c].att.matched = TitleMatches(con[c].att.doc)]
    /\ UNCHANGED <<fs, writes, docs, media, signals, uuids, unlinked>>

\* Lines 104-107: the filename gate.
Try(c) ==
    /\ con[c].pc = "try"
    /\ IF TitleMatches(con[c].att.doc)
       THEN con' = [con EXCEPT ![c].pc = "dup", ![c].att.matched = TRUE]
       ELSE Return(c, "False")
    /\ UNCHANGED <<fs, writes, docs, media, signals, uuids, unlinked>>

\* _is_duplicate digesting the path it was given instead of the file's bytes.
IsDuplicateOfPath(doc) ==
    \E pk \in 1..Len(docs) : docs[pk].checksum = Md5(doc)

\* Lines 236-240: _is_duplicate, the md5 of the file's bytes looked up in
\* the Document table.
IsDuplicate(doc) ==
    \E pk \in 1..Len(docs) : docs[pk].checksum = Md5(fs[doc].bytes)

\* The duplicate gate logging the duplicate without returning.
CheckDuplicateFallsThrough(c) ==
    /\ con[c].pc = "dup"
    /\ con' = [con EXCEPT ![c].pc = "parser", ![c].att.dupchecked = TRUE,
                          ![c].att.duplicate = IsDuplicate(con[c].att.doc)]
    /\ UNCHANGED <<fs, writes, docs, media, signals, uuids, unlinked>>

\* Lines 109-114: the duplicate gate (open raises when the file is gone).
CheckDuplicate(c) ==
    /\ con[c].pc = "dup"
    /\ IF ~Present(con[c].att.doc)
       THEN Raise(c, "is_duplicate")
       ELSE IF IsDuplicate(con[c].att.doc)
       THEN con' = [con EXCEPT ![c].pc = "ret", ![c].att.result = "False",
                               ![c].att.dupchecked = TRUE,
                               ![c].att.duplicate = TRUE]
       ELSE con' = [con EXCEPT ![c].pc = "parser",
                               ![c].att.dupchecked = TRUE]
    /\ UNCHANGED <<fs, writes, docs, media, signals, uuids, unlinked>>

\* A descending sort that is not stable: an option moves behind the options
\* of its own weight that followed it.
RECURSIVE InsertByWeightUnstable(_, _)
InsertByWeightUnstable(x, s) ==
    IF s = <<>> THEN <<x>>
    ELSE IF Head(s).weight >= x.weight
         THEN <<Head(s)>> \o InsertByWeightUnstable(x, Tail(s))
         ELSE <<x>> \o s

\* sorted(options, key=weight, reverse=True): stable, descending by weight.
RECURSIVE InsertByWeight(_, _)
InsertByWeight(x, s) ==
    IF s = <<>> THEN <<x>>
    ELSE IF Head(s).weight > x.weight
         THEN <<Head(s)>> \o InsertByWeight(x, Tail(s))
         ELSE <<x>> \o s

RECURSIVE SortedByWeight(_)
SortedByWeight(options) ==
    IF options = <<>> THEN <<>>
    ELSE InsertByWeight(Head(options), SortedByWeight(Tail(options)))

\* Lines 163-186: _get_parser_class on the results of probing every
\* declared parser in order: the truthy results are the options, None when
\* there are none, else the parser of the first option of the sorted list.
GetParserClass(probes) ==
    LET options == SelectSeq(probes, LAMBDA r : r # Declined)
    IN IF options = <<>> THEN 0 ELSE SortedByWeight(options)[1].parser

\* What n declared parsers may answer for a file: the i-th declines or
\* accepts with its own parser class and some weight.
ProbeResultsOf(n) ==
    {r \in [1..n -> {Declined} \cup [parser : 1..n, weight : Weights]] :
        \A i \in 1..n : r[i] = Declined \/ r[i].parser = i}

ProbeResults == ProbeResultsOf(NumParsers)

\* Lines 116-120: the parser gate.
SelectParser(c) ==
    /\ con[c].pc = "parser"
    /\ \E probes \in ProbeResultsOf(con[c].parsers) :
         LET parser_class == GetParserClass(probes) IN
         con' = [con EXCEPT ![c] =
            [@ EXCEPT !.pc = IF parser_class = 0 THEN "ret" ELSE "start",
                      !.att = [@ EXCEPT !.probed = TRUE,
                                 !.probes = probes,
                                 !.parser_class = parser_class,
                                 !.result = IF parser_class = 0
                                            THEN "False" ELSE "none"]]]
    /\ UNCHANGED <<fs, writes, docs, media, signals, uuids, unlinked>>

\* Start without line 130: the logging group of the consumer is kept.
StartKeepsGroup(c) ==
    /\ con[c].pc = "start"
    /\ uuids < MaxGroups
    /\ uuids' = uuids + 1
    /\ signals' = Append(signals, [kind |-> "started",
                                   subject |-> con[c].att.doc,
                                   group |-> con[c].logging_group])
    /\ con' = [con EXCEPT ![c] =
          [@ EXCEPT !.pc = "thumb",
                    !.att = [@ EXCEPT !.started = TRUE, !.parsed = TRUE,
                                      !.probes = <<>>, !.parser_class = 0]]]
    /\ UNCHANGED <<fs, writes, docs, media, unlinked>>

\* Lines 122-132: a fresh logging group, the "consumption started" signal,
\* and the parser instance; parser_class is not read after line 132.
Start(c) ==
    /\ con[c].pc = "start"
    /\ uuids < MaxGroups
    /\ uuids' = uuids + 1
    /\ signals' = Append(signals, [kind |-> "started",
                                   subject |-> con[c].att.doc,
                                   group |-> uuids + 1])
    /\ con' = [con EXCEPT ![c] =
          [@ EXCEPT !.pc = "thumb", !.logging_group = uuids + 1,
                    !.att = [@ EXCEPT !.started = TRUE, !.parsed = TRUE,
                                      !.probes = <<>>, !.parser_class = 0]]]
    /\ UNCHANGED <<fs, writes, docs, media, unlinked>>

\* One extraction call of the parser: it returns, raises ParseError, or
\* raises something else.
Extract(c, at, next) ==
    /\ con[c].pc = at
    /\ \E outcome \in {"ok", "ParseError", "Error"} :
         con' = [con EXCEPT ![c] =
            [@ EXCEPT !.pc = CASE outcome = "ok" -> next
                              [] outcome = "ParseError" -> "except"
                              [] OTHER -> "raised",
                      !.att = IF outcome = "ok" THEN @
                              ELSE [@ EXCEPT !.exc = outcome, !.at = at]]]
    /\ UNCHANGED <<fs, writes, docs, media, signals, uuids, unlinked>>

\* Line 135.
GetThumbnail(c) == Extract(c, "thumb", "date")
\* Line 136.
GetDate(c) == Extract(c, "date", "text")
\* Line 138: the argument of _store is evaluated before the call.
GetText(c) == Extract(c, "text", "store_create")

(* ------------------------------- _store ------------------------------- *)

\* Document.objects.create: the persisted storage's atomic create.  The
\* table gets the new row; uniqueness of the checksum is left to the
\* duplicate check made before, the store does not enforce it.
CreateDocument(checksum, title) ==
    Append(docs, [checksum |-> checksum, title |-> title, tagged |-> FALSE])

\* _store digesting the path instead of the bytes read from the file.
StoreCreateHashesPath(c) ==
    /\ con[c].pc = "store_create"
    /\ docs' = Append(docs, [checksum |-> Md5(con[c].att.doc),
                             title |-> con[c].att.doc, tagged |-> FALSE])
    /\ con' = [con EXCEPT ![c].pc = "store_tags",
                          ![c].att.document = Len(docs) + 1]
    /\ UNCHANGED <<fs, writes, media, signals, uuids, unlinked>>

\* Lines 190-208: the file is read and the Document row is created with the
\* md5 of its bytes; a failure here (stat, open, the database) leaves no row.
StoreCreate(c) ==
    /\ con[c].pc = "store_create"
    /\ LET doc == con[c].att.doc IN
       IF ~Present(doc)
       THEN Raise(c, "store_create") /\ UNCHANGED docs
       ELSE \E ok \in BOOLEAN :
              IF ok
              THEN /\ docs' = CreateDocument(Md5(fs[doc].bytes), doc)
                   /\ con' = [con EXCEPT ![c].pc = "store_tags",
                                         ![c].att.document = Len(docs) + 1]
              ELSE Raise(c, "store_create") /\ UNCHANGED docs
    /\ UNCHANGED <<fs, writes, media, signals, uuids, unlinked>>

\* Lines 210-214: the tags matched from the text and the filename are
\* associated with the row already created.
StoreTags(c) ==
    /\ con[c].pc = "store_tags"
    /\ \E ok \in BOOLEAN :
         IF ok
         THEN /\ docs' = [docs EXCEPT ![con[c].att.document].tagged = TRUE]
              /\ con' = [con EXCEPT ![c].pc = "store_doc"]
         ELSE Raise(c, "store_tags") /\ UNCHANGED docs
    /\ UNCHANGED <<fs, writes, media, signals, uuids, unlinked>>

\* open(path, "wb") followed by write(GnuPG.encrypted(...)): the artifact
\* with its ciphertext, or an I/O or encryption error and no artifact.
WriteEncrypted(c, kind, at, next) ==
    /\ con[c].pc = at
    /\ LET pk == con[c].att.document
           doc == con[c].att.doc
       IN \E ok \in BOOLEAN :
            IF ok
            THEN /\ media' = media \cup {[pk |-> pk, kind |-> kind,
                                          data |-> Encrypted(fs[doc].bytes)]}
                 /\ con' = [con EXCEPT ![c].pc = next]
            ELSE Raise(c, at) /\ UNCHANGED media
    /\ UNCHANGED <<fs, writes, docs, signals, uuids, unlinked>>

\* Lines 216-220: the encrypted document.
StoreDocument(c) == WriteEncrypted(c, "document", "store_doc", "store_thumb")
\* Lines 222-230: the encrypted thumbnail (the image is identified by the
\* content it renders); _store returns the document.
StoreThumbnail(c) == WriteEncrypted(c, "thumbnail", "store_thumb", "else")

(* ------------------- the handlers of try_consume_file ----------------- *)

\* The ParseError handler removing the source file as the success branch does.
ExceptParseErrorUnlinks(c) ==
    /\ con[c].pc = "except"
    /\ fs' = [fs EXCEPT ![con[c].att.doc] = Absent]
    /\ con' = [con EXCEPT ![c].pc = "ret", ![c].att.result = "False",
                          ![c].att.cleanups = @ + 1]
    /\ UNCHANGED <<writes, docs, media, signals, uuids, unlinked>>

\* The ParseError handler raising again after the cleanup.
ExceptParseErrorReraises(c) ==
    /\ con[c].pc = "except"
    /\ con' = [con EXCEPT ![c].pc = "raised", ![c].att.cleanups = @ + 1]
    /\ UNCHANGED <<fs, writes, docs, media, signals, uuids, unlinked>>

\* Lines 143-146: except ParseError: log, cleanup, return False.
ExceptParseError(c) ==
    /\ con[c].pc = "except"
    /\ con' = [con EXCEPT ![c].pc = "ret", ![c].att.result = "False",
                          ![c].att.cleanups = @ + 1]
    /\ UNCHANGED <<fs, writes, docs, media, signals, uuids, unlinked>>

\* Line 148: else: parsed_document.cleanup().
ElseCleanup(c) ==
    /\ con[c].pc = "else"
    /\ con' = [con EXCEPT ![c].pc = "cleanup_doc", ![c].att.cleanups = @ + 1]
    /\ UNCHANGED <<fs, writes, docs, media, signals, uuids, unlinked>>

\* Lines 149, 232-234: _cleanup_doc unlinks the source file.
CleanupDoc(c) ==
    /\ con[c].pc = "cleanup_doc"
    /\ LET doc == con[c].att.doc IN
       IF Present(doc)
       THEN /\ fs' = [fs EXCEPT ![doc] = Absent]
            /\ unlinked' = unlinked \cup
                  {[path |-> doc, bytes |-> fs[doc].bytes,
                    pk |-> con[c].att.document]}
            /\ con' = [con EXCEPT ![c].pc = "finished"]
       ELSE Raise(c, "cleanup_doc") /\ UNCHANGED <<fs, unlinked>>
    /\ UNCHANGED <<writes, docs, media, signals, uuids>>

\* Lines 151-161: the "consumption finished" signal, return True.
Finished(c) ==
    /\ con[c].pc = "finished"
    /\ signals' = Append(signals, [kind |-> "finished",
                                   subject |-> con[c].att.document,
                                   group |-> con[c].logging_group])
    /\ Return(c, "True")
    /\ UNCHANGED <<fs, writes, docs, media, uuids, unlinked>>

(* ----------------------- back in consume_new_files -------------------- *)

\* The loop leaving a file whose extraction failed off the ignore list.
ReturnedSkipsParseErrors(c) ==
    /\ con[c].pc = "ret"
    /\ con' = [con EXCEPT ![c] =
          [@ EXCEPT !.pc = "loop", !.idx = @ + 1,
                    !.ignore = IF con[c].att.result = "False"
                                  /\ con[c].att.exc # "ParseError"
                               THEN Append(@, con[c].att.doc) ELSE @,
                    !.parse_failed = IF con[c].att.exc = "ParseError"
                                     THEN @ \cup {con[c].att.doc} ELSE @,
                    !.att = NoAttempt]]
    /\ UNCHANGED <<fs, writes, docs, media, signals, uuids, unlinked>>

\* The loop appending every attempted file, consumed or not.
ReturnedIgnoresAlways(c) ==
    /\ con[c].pc = "ret"
    /\ con' = [con EXCEPT ![c] =
          [@ EXCEPT !.pc = "loop", !.idx = @ + 1,
                    !.ignore = Append(@, con[c].att.doc),
                    !.parse_failed = IF con[c].att.exc = "ParseError"
                                     THEN @ \cup {con[c].att.doc} ELSE @,
                    !.att = NoAttempt]]
    /\ UNCHANGED <<fs, writes, docs, media, signals, uuids, unlinked>>

\* Lines 98-99: a file that was not consumed is appended to the ignore
\* list; the loop goes on with the next file.
Returned(c) ==
    /\ con[c].pc = "ret"
    /\ con' = [con EXCEPT ![c] =
          [@ EXCEPT !.pc = "loop", !.idx = @ + 1,
                    !.ignore = IF con[c].att.result = "False"
                               THEN Append(@, con[c].att.doc) ELSE @,
                    !.parse_failed = IF con[c].att.exc = "ParseError"
                                     THEN @ \cup {con[c].att.doc} ELSE @,
                    !.att = NoAttempt]]
    /\ UNCHANGED <<fs, writes, docs, media, signals, uuids, unlinked>>

\* No handler of consume_new_files catches: the exception ends the pass.
\* The caller may invoke consume_new_files again.
Propagate(c) ==
    /\ con[c].pc = "raised"
    /\ con' = [con EXCEPT ![c] =
          [@ EXCEPT !.pc = "idle", !.files = <<>>, !.idx = 0,
                    !.att = NoAttempt]]
    /\ UNCHANGED <<fs, writes, docs, media, signals, uuids, unlinked>>

(* --------------------------- specification ---------------------------- *)

Step(c) ==
    \/ Scan(c) \/ Sleep(c) \/ Loop(c)
    \/ Try(c) \/ CheckDuplicate(c) \/ SelectParser(c) \/ Start(c)
    \/ GetThumbnail(c) \/ GetDate(c) \/ GetText(c)
    \/ StoreCreate(c) \/ StoreTags(c) \/ StoreDocument(c) \/ StoreThumbnail(c)
    \/ ExceptParseError(c) \/ ElseCleanup(c) \/ CleanupDoc(c) \/ Finished(c)
    \/ Returned(c) \/ Propagate(c)

Environment ==
    \/ \E p \in Paths, b \in Contents : Write(p, b)
    \/ \E p \in Paths : Remove(p)

\* One consumer process and the environment.
Next == Environment \/ Step(1)

Spec == Init /\ [][Next]_vars

\* Two consumer processes on one consumption directory and one database,
\* their steps interleaved, and the environment.
NextTwo == Environment \/ \E c \in Consumers : Step(c)

SpecTwo == Init /\ [][NextTwo]_vars

\* The consumer process keeps running: a step it can take is taken.
SpecLive == Init /\ [][Next]_vars /\ WF_vars(Step(1))

(* ----------------------------- __init__ ------------------------------- *)

\* The settings a Consumer may be constructed with: CONSUMPTION_DIR unset,
\* naming no directory, or naming one; and the parsers that answer
\* document_consumer_declaration.
Unconstructed(consume, parsers) ==
    [NewConsumer EXCEPT !.pc = "new", !.consume = consume,
                        !.parsers = parsers, !.scratch = FALSE]

\* __init__ without the test of lines 67-71.
ConstructWithoutParsersCheck(c) ==
    /\ con[c].pc = "new"
    /\ con' = [con EXCEPT ![c].scratch = TRUE,
                          ![c].pc = IF con[c].consume = "exists"
                                    THEN "idle" ELSE "ConsumerError"]
    /\ UNCHANGED <<fs, writes, docs, media, signals, uuids, unlinked>>

\* Lines 41-71: make_dirs(scratch), then ConsumerError when the consumption
\* directory is unset or does not exist or no parser was declared.
Construct(c) ==
    /\ con[c].pc = "new"
    /\ con' = [con EXCEPT ![c].scratch = TRUE,
                          ![c].pc = IF con[c].consume = "unset"
                                    THEN "ConsumerError"
                                    ELSE IF con[c].consume = "missing"
                                    THEN "ConsumerError"
                                    ELSE IF con[c].parsers = 0
                                    THEN "ConsumerError"
                                    ELSE "idle"]
    /\ UNCHANGED <<fs, writes, docs, media, signals, uuids, unlinked>>

\* Before the constructor runs; files are dropped only into a consumption
\* directory that exists.
InitNew ==
    /\ fs = [p \in Paths |-> Absent]
    /\ writes = 0
    /\ docs = <<>>
    /\ media = {}
    /\ signals = <<>>
    /\ uuids = 0
    /\ unlinked = {}
    /\ \E consume \in {"unset", "missing", "exists"} :
       \E parsers \in 0..NumParsers :
          con = [c \in Consumers |->
                   IF c = 1 THEN Unconstructed(consume, parsers)
                   ELSE NewConsumer]

NextNew ==
    \/ con[1].consume = "exists" /\ Environment
    \/ Construct(1)
    \/ Step(1)

SpecNew == InitNew /\ [][NextNew]_vars

(* ------------------------------ claims -------------------------------- *)

StoreSteps == {"store_create", "store_tags", "store_doc", "store_thumb"}

\* The Document row pk and both of its encrypted artifacts exist for bytes b.
Stored(pk, b) ==
    /\ pk \in 1..Len(docs)
    /\ docs[pk].checksum = Md5(b)
    /\ [pk |-> pk, kind |-> "document", data |-> Encrypted(b)] \in media
    /\ [pk |-> pk, kind |-> "thumbnail", data |-> Encrypted(b)] \in media

\* C1: the pipeline unlinks a source file only after _store has created its
\* Document row and written both encrypted artifacts: every file the
\* pipeline has removed has its row and both artifacts, and a file leaves
\* the directory, other than by an outside removal, only in a step of the
\* success branch taken when the row and the artifacts are there.
C1_DeleteOnlyAfterStore ==
    /\ [](\A u \in unlinked : Stored(u.pk, u.bytes))
    /\ [][\A p \in Paths :
            (Present(p) /\ fs'[p] = Absent /\ writes' = writes)
            => \E c \in Consumers :
                  /\ con[c].pc = "cleanup_doc"
                  /\ con[c].att.doc = p
                  /\ Stored(con[c].att.document, fs[p].bytes)]_vars

\* C1 witness: the pipeline has removed a source file.
C1_Witness == unlinked # {}

\* C2: with one consumer, no two Document rows have the same checksum.
C2_ChecksumUnique ==
    \A i, j \in 1..Len(docs) :
        i # j => docs[i].checksum # docs[j].checksum

\* C2 witness: the bytes of a document already stored came back under the
\* same path and the duplicate gate turned them away.
C2_Witness ==
    \E c \in Consumers :
        /\ con[c].pc = "ret" /\ con[c].att.duplicate
        /\ \E pk \in 1..Len(docs) :
              /\ docs[pk].title = con[c].att.doc
              /\ docs[pk].checksum = Md5(con[c].att.bytes0)

\* The file of consumer c's attempt had, when the attempt began, bytes whose
\* md5 is the checksum of a Document persisted by then.
DuplicateAtStart(c) ==
    /\ con[c].pc \in AttemptPcs /\ con[c].att.doc # 0
    /\ \E pk \in 1..con[c].att.docs0 :
          docs[pk].checksum = Md5(con[c].att.bytes0)

\* C3: an attempt on a file whose bytes hash to the checksum of a persisted
\* Document creates no Document, writes no artifact, probes and instantiates
\* no parser, sends no signal, leaves the source file in place, and ends
\* returning False.
C3_DuplicateNoEffect ==
    \A c \in Consumers :
        DuplicateAtStart(c) =>
            /\ Len(docs) = con[c].att.docs0
            /\ media = con[c].att.media0
            /\ Len(signals) = con[c].att.sig0
            /\ ~con[c].att.probed /\ ~con[c].att.parsed
            /\ fs[con[c].att.doc].bytes = con[c].att.bytes0
            /\ con[c].pc \in {"try", "dup", "ret"}
            /\ con[c].pc = "ret" => con[c].att.result = "False"

\* C3 witness: the duplicate gate has returned False for such a file.
C3_Witness ==
    \E c \in Consumers :
        /\ DuplicateAtStart(c) /\ con[c].pc = "ret"
        /\ con[c].att.dupchecked /\ con[c].att.result = "False"

\* C4: when try_consume_file returns True, exactly one Document was created
\* during the call, its checksum is the md5 of the source file's bytes, and
\* the source file is gone.
C4_ConsumedPostcondition ==
    \A c \in Consumers :
        (con[c].pc = "ret" /\ con[c].att.result = "True") =>
            /\ Len(docs) = con[c].att.docs0 + 1
            /\ con[c].att.document = Len(docs)
            /\ docs[Len(docs)].checksum = Md5(con[c].att.bytes0)
            /\ ~Present(con[c].att.doc)

\* C4 witness: try_consume_file has returned True.
C4_Witness ==
    \E c \in Consumers : con[c].pc = "ret" /\ con[c].att.result = "True"

\* C5: a ParseError raised by get_thumbnail, get_date or get_text never
\* leaves the attempt; the attempt ends returning False with no Document
\* created, the source file in place and cleanup() called exactly once, and
\* the pass goes on with the next file of its list.
C5_ParseErrorRecovered ==
    /\ [](\A c \in Consumers :
            con[c].att.exc = "ParseError" =>
                /\ con[c].pc \in {"except", "ret"}
                /\ con[c].att.at \in {"thumb", "date", "text"}
                /\ Len(docs) = con[c].att.docs0
                /\ fs[con[c].att.doc].bytes = con[c].att.bytes0
                /\ con[c].pc = "ret" =>
                      con[c].att.result = "False" /\ con[c].att.cleanups = 1)
    /\ [][\A c \in Consumers :
            (con[c].pc = "ret" /\ con[c].att.exc = "ParseError"
                 /\ con'[c] # con[c])
            => /\ con'[c].pc = "loop"
               /\ con'[c].files = con[c].files
               /\ con'[c].idx = con[c].idx + 1]_vars

\* C5 witness: a ParseError attempt has returned and the pass has a next file.
C5_Witness ==
    \E c \in Consumers :
        /\ con[c].pc = "ret" /\ con[c].att.exc = "ParseError"
        /\ con[c].idx < Len(con[c].files)

\* C6: after _store has failed at any step, no Document with the checksum of
\* the file is visible to _is_duplicate.
C6_StoreFailureLeavesNoRow ==
    \A c \in Consumers :
        (con[c].pc = "raised" /\ con[c].att.at \in StoreSteps
             /\ Present(con[c].att.doc))
        => ~IsDuplicate(con[c].att.doc)

\* C7: a failure of the store step leaves try_consume_file as an exception,
\* not as a False return, and the source file is still in place.
C7_StoreFailurePropagates ==
    \A c \in Consumers :
        con[c].att.at \in StoreSteps =>
            /\ con[c].pc = "raised"
            /\ con[c].att.result = "none"
            /\ fs[con[c].att.doc].bytes = con[c].att.bytes0
            /\ \A u \in unlinked : u.pk # con[c].att.document

\* C7 witness: the store step has failed after the row was created.
C7_Witness ==
    \E c \in Consumers :
        con[c].pc = "raised" /\ con[c].att.at = "store_doc"

\* C8: an attempt that constructed a parser instance has called its
\* cleanup() by the time it ends, whatever the outcome.
C8_CleanupAlways ==
    \A c \in Consumers :
        (con[c].pc \in {"ret", "raised"} /\ con[c].att.parsed)
        => con[c].att.cleanups >= 1

\* C9: a file whose modification time after the settle delay differs from
\* the one recorded by the scan is not handed to try_consume_file and not
\* appended to the ignore list in that pass, and the next scan lists it again.
C9_UnsettledSkipped ==
    /\ [][\A c \in Consumers :
            (/\ con[c].pc = "loop" /\ con[c].idx <= Len(con[c].files)
             /\ Present(con[c].files[con[c].idx].path)
             /\ fs[con[c].files[con[c].idx].path].mtime
                    # con[c].files[con[c].idx].mtime
             /\ con'[c] # con[c])
            => /\ con'[c].pc = "loop"
               /\ con'[c].idx = con[c].idx + 1
               /\ con'[c].ignore = con[c].ignore
               /\ con[c].files[con[c].idx].path \notin con'[c].tried
               /\ con[c].files[con[c].idx].path \in con'[c].unsettled]_vars
    /\ [](\A c \in Consumers : \A p \in con[c].unsettled :
            p \notin con[c].tried /\ ~InIgnore(c, p))
    /\ [][\A c \in Consumers :
            (con[c].pc = "idle" /\ con'[c] # con[c])
            => \A p \in con[c].unsettled :
                  Present(p) =>
                     \E i \in 1..Len(con'[c].files) :
                         con'[c].files[i].path = p]_vars

\* C9 witness: a pass has ended in which a file was skipped as unsettled.
C9_Witness ==
    \E c \in Consumers : con[c].pc = "idle" /\ con[c].unsettled # {}

\* C10: _get_parser_class returns None exactly when no parser accepts; else
\* the parser of an accepting candidate of maximum weight, the first
\* enumerated among those of maximum weight.
C10_ParserSelection ==
    \A c \in Consumers :
        con[c].att.probes # <<>> =>
            LET probes == con[c].att.probes
                accepting == {i \in 1..Len(probes) : probes[i] # Declined}
            IN /\ con[c].att.parser_class = 0 <=> accepting = {}
               /\ accepting # {} =>
                    \E i \in accepting :
                       /\ con[c].att.parser_class = probes[i].parser
                       /\ \A j \in accepting :
                             /\ probes[j].weight <= probes[i].weight
                             /\ probes[j].weight = probes[i].weight => i <= j

\* C10 witness: two candidates accepted with the same weight and the one
\* declared first was chosen.
C10_Witness ==
    \E c \in Consumers :
        /\ Len(con[c].att.probes) >= 2
        /\ con[c].att.probes[1] # Declined
        /\ con[c].att.probes[2] # Declined
        /\ con[c].att.probes[1].weight = con[c].att.probes[2].weight
        /\ con[c].att.parser_class = con[c].att.probes[1].parser

\* C11: with two consumer processes running passes at once, the duplicate
\* check followed by the create keeps the checksums of the Document rows
\* pairwise different under every interleaving.
C11_ChecksumUniqueTwoConsumers ==
    Cardinality({docs[pk].checksum : pk \in 1..Len(docs)}) = Len(docs)

\* C12: an attempt on a file whose path does not match the filename pattern
\* ends at the first gate returning False: no duplicate check, no probe, no
\* parser instance, no signal, no Document, no artifact, the file in place.
\* In every attempt the gates come in the order filename, duplicate, parser.
C12_FilenameGateFirst ==
    \A c \in Consumers :
        (con[c].pc \in AttemptPcs /\ con[c].att.doc # 0) =>
            /\ con[c].att.dupchecked => con[c].att.matched
            /\ con[c].att.probed =>
                  con[c].att.dupchecked /\ ~con[c].att.duplicate
            /\ con[c].att.started =>
                  con[c].att.probed /\ con[c].att.parsed
            /\ ~TitleMatches(con[c].att.doc) =>
                  /\ con[c].pc \in {"try", "ret"}
                  /\ con[c].pc = "ret" => con[c].att.result = "False"
                  /\ ~con[c].att.dupchecked /\ ~con[c].att.probed
                  /\ ~con[c].att.started /\ ~con[c].att.parsed
                  /\ Len(docs) = con[c].att.docs0
                  /\ media = con[c].att.media0
                  /\ Len(signals) = con[c].att.sig0
                  /\ fs[con[c].att.doc].bytes = con[c].att.bytes0

\* C12 witness: try_consume_file has returned False for a file whose path
\* does not match.
C12_Witness ==
    \E c \in Consumers :
        /\ con[c].pc = "ret" /\ con[c].att.doc # 0
        /\ ~TitleMatches(con[c].att.doc)
        /\ con[c].att.result = "False"

\* C13: a file turned away as a duplicate is not appended to the ignore
\* list, and neither is a file that was consumed: when consume_new_files
\* takes the result of such an attempt, the ignore list stays as it was (so
\* the path is scanned and duplicate-checked again in the next pass).
C13_DuplicateNotIgnored ==
    [][\A c \in Consumers :
          (/\ con[c].pc = "ret"
           /\ con[c].att.duplicate \/ con[c].att.result = "True"
           /\ con'[c] # con[c])
          => con'[c].ignore = con[c].ignore]_vars

\* The attempt of consumer c has returned False at the filename gate or
\* because no parser accepted the file.
StructuralSkip(c) ==
    /\ con[c].pc = "ret" /\ con[c].att.result = "False"
    /\ \/ ~con[c].att.matched
       \/ con[c].att.probed /\ ~con[c].att.started

\* C14: a file whose attempt ends in a structural skip is appended to the
\* ignore list, the ignore list only grows, and no attempt is ever made on
\* a path that is on the ignore list, whatever appears at that path later.
C14_StructuralSkipIgnored ==
    /\ [][\A c \in Consumers :
            (StructuralSkip(c) /\ con'[c] # con[c])
            => \E i \in 1..Len(con'[c].ignore) :
                   con'[c].ignore[i] = con[c].att.doc]_vars
    /\ [][\A c \in Consumers :
            /\ Len(con'[c].ignore) >= Len(con[c].ignore)
            /\ SubSeq(con'[c].ignore, 1, Len(con[c].ignore)) = con[c].ignore]_vars
    /\ [](\A c \in Consumers :
            /\ \A i \in 1..Len(con[c].files) :
                   i >= con[c].idx => ~InIgnore(c, con[c].files[i].path)
            /\ (con[c].pc \in AttemptPcs /\ con[c].att.doc # 0)
                   => ~InIgnore(c, con[c].att.doc))

\* C14 witness: a scan has found nothing to attempt although a file with a
\* later modification time is present at a path of the ignore list.
C14_Witness ==
    \E c \in Consumers : \E p \in Paths :
        /\ con[c].pc = "idle" /\ con[c].idx = 1 /\ con[c].files = <<>>
        /\ InIgnore(c, p) /\ ~TitleMatches(p)
        /\ Present(p) /\ fs[p].mtime >= 2

\* The settings consumer c is constructed with make __init__ raise.
BadSettings(c) ==
    con[c].consume # "exists" \/ con[c].parsers = 0

\* C15: constructing a Consumer with the consumption directory unset or
\* missing, or with no parser declared, ends in ConsumerError: there is no
\* consumer instance, and nothing is scanned, attempted, stored or deleted.
C15_ConstructorRejects ==
    \A c \in Consumers :
        /\ BadSettings(c) => con[c].pc \in {"new", "ConsumerError"}
        /\ con[c].pc = "ConsumerError" => BadSettings(c)
        /\ con[c].pc \in {"new", "ConsumerError"} =>
              /\ con[c].files = <<>> /\ con[c].tried = {}
              /\ con[c].ignore = <<>> /\ con[c].att = NoAttempt
              /\ docs = <<>> /\ media = {} /\ signals = <<>>
              /\ unlinked = {}

\* C15 witness: the constructor has raised for want of parsers while a
\* file lies in the consumption directory.
C15_Witness ==
    \E c \in Consumers : \E p \in Paths :
        /\ con[c].pc = "ConsumerError"
        /\ con[c].consume = "exists" /\ con[c].parsers = 0
        /\ Present(p)

\* The paths of the pass of consumer c listed before position k.
ListedBefore(c, k) ==
    {con[c].files[i].path : i \in 1..(k - 1) \cap 1..Len(con[c].files)}

\* C16: within one pass the files are taken one at a time in the order of
\* the modification times recorded by the scan, oldest first; the
\* modification time of the next file is read again, and its attempt begun,
\* only when no attempt is under way and every file listed before it has
\* been dealt with.
C16_SequentialOldestFirst ==
    /\ [](\A c \in Consumers :
            /\ \A i, j \in 1..Len(con[c].files) :
                  i < j => con[c].files[i].mtime <= con[c].files[j].mtime
            /\ con[c].att.doc # 0 =>
                  /\ con[c].pc \in AttemptPcs
                  /\ con[c].idx \in 1..Len(con[c].files)
                  /\ con[c].files[con[c].idx].path = con[c].att.doc
            /\ con[c].files # <<>> =>
                  /\ con[c].tried \cap con[c].unsettled = {}
                  /\ con[c].tried \cup con[c].unsettled =
                        ListedBefore(c, con[c].idx) \cup
                        (IF con[c].att.doc # 0 THEN {con[c].att.doc} ELSE {}))
    /\ [][\A c \in Consumers :
            con'[c].tried # con[c].tried /\ con'[c].tried # {} =>
               /\ con[c].pc = "loop" /\ con'[c].pc = "try"
               /\ con[c].att = NoAttempt
               /\ con'[c].files = con[c].files
               /\ con'[c].idx = con[c].idx
               /\ con'[c].tried =
                     con[c].tried \cup {con[c].files[con[c].idx].path}
               /\ con[c].tried \subseteq ListedBefore(c, con[c].idx)
               /\ fs[con[c].files[con[c].idx].path].mtime =
                     con[c].files[con[c].idx].mtime]_vars

\* C16 witness: the second file of a pass is attempted after the first,
\* older one was.
C16_Witness ==
    \E c \in Consumers :
        /\ con[c].pc = "try" /\ con[c].idx = 2
        /\ con[c].files[1].path \in con[c].tried
        /\ con[c].files[1].mtime < con[c].files[2].mtime

\* C17: "consumption started" is sent only when the file name matched,
\* the file is no duplicate and a parser took it, with a logging group no
\* earlier signal carries; "consumption finished" is sent only when the
\* document is stored and the file deleted, with the group of that file's
\* "started" and the document just created; no attempt that was skipped or
\* that failed sends "finished"; no two "started" share a group.
C17_SignalProtocol ==
    /\ [](/\ \A i, j \in 1..Len(signals) :
               /\ i < j
               /\ signals[i].kind = "started"
               /\ signals[j].kind = "started"
               => signals[i].group # signals[j].group
          /\ \A j \in 1..Len(signals) :
               signals[j].kind = "finished" =>
                  /\ signals[j].subject \in 1..Len(docs)
                  /\ \E i \in 1..(j - 1) :
                        /\ signals[i].kind = "started"
                        /\ signals[i].group = signals[j].group
                        /\ \E u \in unlinked :
                              /\ u.path = signals[i].subject
                              /\ u.pk = signals[j].subject
          /\ \A c \in Consumers :
               /\ con[c].att.doc # 0
               /\ con[c].att.result = "False" \/ con[c].att.exc # "none"
               => \A i \in (con[c].att.sig0 + 1)..Len(signals) :
                     signals[i].kind # "finished")
    /\ [][signals' # signals =>
            /\ Len(signals') = Len(signals) + 1
            /\ SubSeq(signals', 1, Len(signals)) = signals
            /\ \E c \in Consumers :
                 LET s == signals'[Len(signals')]
                     att == con[c].att
                 IN /\ s.kind = "started" =>
                         /\ con[c].pc = "start"
                         /\ att.matched /\ att.dupchecked /\ ~att.duplicate
                         /\ att.probed /\ att.parser_class # 0
                         /\ att.exc = "none"
                         /\ Len(signals) = att.sig0 /\ Len(docs) = att.docs0
                         /\ s.subject = att.doc
                         /\ s.group = con'[c].logging_group
                         /\ \A i \in 1..Len(signals) :
                               signals[i].group # s.group
                    /\ s.kind = "finished" =>
                         /\ con[c].pc = "finished"
                         /\ att.started /\ att.exc = "none"
                         /\ con'[c].att.result = "True"
                         /\ s.subject = att.document
                         /\ att.document = att.docs0 + 1
                         /\ att.document \in 1..Len(docs)
                         /\ ~Present(att.doc)
                         /\ \E u \in unlinked :
                               u.path = att.doc /\ u.pk = att.document
                         /\ s.group = con[c].logging_group
                         /\ signals[Len(signals)] =
                               [kind |-> "started", subject |-> att.doc,
                                group |-> s.group]]_vars

\* C17 witness: two files were consumed, each with its pair of signals.
C17_Witness ==
    /\ Len(signals) = 4
    /\ signals[2].kind = "finished" /\ signals[4].kind = "finished"
    /\ signals[3].kind = "started"
    /\ signals[1].group # signals[3].group

\* C18, as stated: from the scan that starts a pass to the end of the pass
\* the ignore list is not modified.
C18_ReadOnlyDuringPass ==
    [][\A c \in Consumers :
          con[c].pc # "idle" => con'[c].ignore = con[c].ignore]_vars

\* C18, amended: the ignore list changes only inside a pass, when an attempt
\* has returned False, by the append of that file's path; the list of files
\* of the pass, made by the scan from the ignore list, is not affected, and
\* nothing changes the ignore list between passes.
C18_AppendOnlyAfterFailedAttempt ==
    [][\A c \in Consumers :
          con'[c].ignore # con[c].ignore =>
             /\ con[c].pc = "ret"
             /\ con[c].att.result = "False"
             /\ con'[c].ignore = Append(con[c].ignore, con[c].att.doc)
             /\ con'[c].files = con[c].files]_vars

\* C18 witness: in the middle of a pass the file before the next one has
\* been put on the ignore list.
C18_Witness ==
    \E c \in Consumers :
        /\ con[c].pc = "loop"
        /\ con[c].idx = 2 /\ Len(con[c].files) = 2
        /\ con[c].ignore = <<con[c].files[1].path>>

\* C19: when the attempt on a file ended in the ParseError handler, the
\* loop appends the path to the ignore list and the file is left as it was
\* in the directory; from then on the path stays on the ignore list and no
\* pass of that consumer lists or attempts it.
C19_ParseFailureIgnored ==
    /\ [](\A c \in Consumers : \A p \in con[c].parse_failed :
            /\ InIgnore(c, p)
            /\ con[c].att.doc # p
            /\ \A i \in 1..Len(con[c].files) :
                  i >= con[c].idx => con[c].files[i].path # p)
    /\ [][\A c \in Consumers :
            /\ (/\ con[c].pc = "ret"
                /\ con[c].att.exc = "ParseError"
                /\ con'[c] # con[c])
               => /\ con[c].att.result = "False"
                  /\ con'[c].ignore = Append(con[c].ignore, con[c].att.doc)
                  /\ Present(con[c].att.doc)
                  /\ fs[con[c].att.doc].bytes = con[c].att.bytes0
                  /\ fs' = fs /\ unlinked' = unlinked
            /\ con'[c].tried # con[c].tried =>
                  (con'[c].tried \ con[c].tried) \cap con[c].parse_failed
                     = {}]_vars

\* C19 witness: a later pass of the consumer lists another file while the
\* file whose extraction failed lies in the directory.
C19_Witness ==
    \E c \in Consumers : \E p \in Paths :
        /\ p \in con[c].parse_failed /\ Present(p)
        /\ con[c].pc = "sleep"
        /\ Len(con[c].files) = 1 /\ con[c].files[1].path # p

\* The attempt of consumer c passed every gate and nothing was raised.
Eligible(c) ==
    /\ con[c].att.matched
    /\ con[c].att.dupchecked /\ ~con[c].att.duplicate
    /\ con[c].att.started
    /\ con[c].att.exc = "none"

\* The pipeline stored the file at path p and removed it.
ConsumedPath(p) ==
    \E u \in unlinked : u.path = p /\ Stored(u.pk, u.bytes)

\* C20: a pass that has begun ends, and an attempt that has begun returns
\* or raises; a pass that ends without an exception has gone through every
\* file it listed; each file gone through was set aside as modified during
\* the settle delay, or put on the ignore list, or stored and removed; and
\* an attempt that passed the file name, duplicate and parser gates and in
\* which nothing was raised returns True with the Document stored and the
\* source file removed.
C20_EligibleFileConsumed ==
    /\ [](\A c \in Consumers :
            /\ con[c].pc = "idle" /\ con[c].files # <<>> =>
                  con[c].idx = Len(con[c].files) + 1
            /\ \A i \in 1..Len(con[c].files) :
                  i < con[c].idx =>
                     \/ con[c].files[i].path \in con[c].unsettled
                     \/ InIgnore(c, con[c].files[i].path)
                     \/ ConsumedPath(con[c].files[i].path))
    /\ [][\A c \in Consumers :
            (con[c].pc = "ret" /\ con'[c] # con[c]) =>
               IF Eligible(c)
               THEN /\ con[c].att.result = "True"
                    /\ ~Present(con[c].att.doc)
                    /\ Stored(con[c].att.document, con[c].att.bytes0)
                    /\ [path |-> con[c].att.doc,
                        bytes |-> con[c].att.bytes0,
                        pk |-> con[c].att.document] \in unlinked
                    /\ con'[c].pc = "loop"
                    /\ con'[c].idx = con[c].idx + 1
               ELSE con[c].att.result = "False"]_vars
    /\ (con[1].pc = "sleep" /\ uuids + Len(con[1].files) <= MaxGroups)
          ~> (con[1].pc = "idle")

\* C20 witness: a pass over two files has ended; one of them was stored and
\* removed.
C20_Witness ==
    \E c \in Consumers :
        /\ con[c].pc = "idle"
        /\ Len(con[c].files) = 2 /\ con[c].idx = 3
        /\ \E i \in 1..2 :
              /\ con[c].files[i].path \in con[c].tried
              /\ ~InIgnore(c, con[c].files[i].path)
              /\ ConsumedPath(con[c].files[i].path)
              /\ ~Present(con[c].files[i].path)

====
